---- MODULE Spec2Model ----
(***************************************************************************)
(* hexpxl: pixelisation of a raster with square or hexagonal tiles.        *)
(* Model of src/main.rs: square_pixelisation, hexagon_pixelisation and     *)
(* the dispatch in pixelise.                                               *)
(*                                                                         *)
(* Two specifications share the variables:                                 *)
(*   Spec    - one run of pixelise on a small image: buffer allocation,    *)
(*             the sequential square loop, the rayon fan-out of the        *)
(*             hexagonal per-pixel closure, the write-back loop;           *)
(*   MapSpec - the per-pixel coordinate mappings applied to one pixel of   *)
(*             a larger image, with every intermediate value recorded.     *)
(*                                                                         *)
(* u32 values that can exceed the range of the model checker's integers    *)
(* (differences, squares, d1, d2) are pairs <<hi, lo>> of 16-bit limbs.    *)
(* Rust's arithmetic overflow behaviour depends on the build: with         *)
(* overflow checks (debug profile) it panics, without (release profile)    *)
(* it wraps modulo 2^32.  The build is drawn in Init.                      *)
(***************************************************************************)
EXTENDS Integers, Naturals, Sequences, FiniteSets, TLC

VARIABLES mode, radius, width, height, img, overflow_checks, workers,
          pc, pixelised, coordinates, pending, running, pixels, cursor,
          px, py, mapped, remapped

vars == <<mode, radius, width, height, img, overflow_checks, workers,
          pc, pixelised, coordinates, pending, running, pixels, cursor,
          px, py, mapped, remapped>>

(***************************************************************************)
(* Bounds                                                                  *)
(***************************************************************************)
MaxWidth == 2
MaxHeight == 2
MaxRadius == 4
MaxWorkers == 2
MapMaxWidth == 6
MapMaxHeight == 8
MapMaxRadius == 6
\* one large configuration: a tile far larger than a tall, narrow image
BigRadius == 40000
BigHeight == 4368
BigWindow == 2
\* and the same tile on a wide image, which holds a center off the origin
BigWidth == 69283

None == <<>>
Blank == 0

Min(a, b) == IF a < b THEN a ELSE b

(***************************************************************************)
(* u32 arithmetic on 16-bit limbs                                          *)
(***************************************************************************)
Limb == 65536

ToU32(n) == <<n \div Limb, n % Limb>>

\* a - b on u32, wrapping; a and b are below 2^31
WrappingSub(a, b) ==
    IF a >= b THEN ToU32(a - b)
    ELSE LET d == b - a - 1
         IN  <<(Limb - 1) - (d \div Limb), (Limb - 1) - (d % Limb)>>

\* the full 32-bit product of two 16-bit limbs
MulLimbs(p, q) ==
    LET p1 == (p \div 256) * q
        p0 == (p % 256) * q
        t  == (p1 % 256) * 256 + p0
    IN  <<(p1 \div 256) + (t \div Limb), t % Limb>>

WrappingMul(a, b) ==
    LET ll == MulLimbs(a[2], b[2])
        c1 == MulLimbs(a[1], b[2])[2]
        c2 == MulLimbs(a[2], b[1])[2]
    IN  <<(ll[1] + c1 + c2) % Limb, ll[2]>>

WrappingAdd(a, b) ==
    LET lo == a[2] + b[2]
    IN  <<(a[1] + b[1] + (lo \div Limb)) % Limb, lo % Limb>>

MulOverflows(a, b) ==
    LET ll == MulLimbs(a[2], b[2])
        x1 == MulLimbs(a[1], b[2])
        x2 == MulLimbs(a[2], b[1])
    IN  \/ (a[1] > 0 /\ b[1] > 0)
        \/ x1[1] > 0
        \/ x2[1] > 0
        \/ ll[1] + x1[2] + x2[2] >= Limb

AddOverflows(a, b) == a[1] + b[1] + ((a[2] + b[2]) \div Limb) >= Limb

U32Lt(a, b) == a[1] < b[1] \/ (a[1] = b[1] /\ a[2] < b[2])

\* macro sqr!: tmp * tmp
Sqr(tmp) == WrappingMul(tmp, tmp)

(***************************************************************************)
(* f32 computations of hexagon_pixelisation                                *)
(***************************************************************************)
RECURSIVE Log2(_)
Log2(n) == IF n < 2 THEN 0 ELSE 1 + Log2(n \div 2)

RECURSIVE Pow2(_)
Pow2(k) == IF k = 0 THEN 1 ELSE 2 * Pow2(k - 1)

\* (PI / 6.0).cos() in f32 is Cos30Mantissa * 2^-24
Cos30Mantissa == 14529495

\* variant: the product rounded to the nearest integer instead of truncated
InnerRadiusRounded(R) == (R * 866 + 500) \div 1000

\* (outer_radius as f32 * (PI / 6.0).cos()) as u32, for outer_radius < 2^16:
\* the exact product I + F * 2^-24, rounded to 24 significant bits (ties to
\* even), then truncated
InnerRadius(R) ==
    LET chi == Cos30Mantissa \div 4096
        clo == Cos30Mantissa % 4096
        A   == R * chi + ((R * clo) \div 4096)
        I   == A \div 4096
        F   == (A % 4096) * 4096 + ((R * clo) % 4096)
    IN  IF I = 0 THEN 0
        ELSE IF F >= Pow2(24) - Pow2(Log2(I)) THEN I + 1 ELSE I

\* (3.0 * outer_radius as f32 / 2.0) as u32
Gap(R) == (3 * R) \div 2

(***************************************************************************)
(* SquareTiler: x / radius * radius                                        *)
(***************************************************************************)
\* variant: rounding up to the next multiple
SquareMapCeil(x, r) == ((x + r - 1) \div r) * r

SquareMap(x, r) == (x \div r) * r

(***************************************************************************)
(* HexTiler: the closure of coordinates.par_iter().map                     *)
(***************************************************************************)
SameParity(xi, yi) == (xi % 2 = 0) = (yi % 2 = 0)

\* variant: the branches of the parity test exchanged
CornerIdxSwapped(x, y, r, g) ==
    LET x_low_idx  == x \div r
        x_high_idx == (x \div r) + 1
        y_low_idx  == y \div g
        y_high_idx == (y \div g) + 1
    IN  IF SameParity(x_low_idx, y_low_idx)
        THEN <<(<<x_low_idx, y_high_idx>>), (<<x_high_idx, y_low_idx>>)>>
        ELSE <<(<<x_low_idx, y_low_idx>>), (<<x_high_idx, y_high_idx>>)>>

\* (corner_a_idx, corner_b_idx)
CornerIdx(x, y, r, g) ==
    LET x_low_idx  == x \div r
        x_high_idx == (x \div r) + 1
        y_low_idx  == y \div g
        y_high_idx == (y \div g) + 1
    IN  IF SameParity(x_low_idx, y_low_idx)
        THEN <<(<<x_low_idx, y_low_idx>>), (<<x_high_idx, y_high_idx>>)>>
        ELSE <<(<<x_low_idx, y_high_idx>>), (<<x_high_idx, y_low_idx>>)>>

Corner(idx, r, g) == <<idx[1] * r, idx[2] * g>>

\* the operands of sqr! in d1 or d2
DiffX(c, x) == WrappingSub(c[1], x)
DiffY(c, y) == WrappingSub(c[2], y)

\* sqr!(corner_x - x) + sqr!(corner_y - y)
Dist(c, x, y) == WrappingAdd(Sqr(DiffX(c, x)), Sqr(DiffY(c, y)))

\* does the computation of Dist panic when overflow checks are on
DistOverflows(c, x, y) ==
    \/ c[1] < x
    \/ c[2] < y
    \/ MulOverflows(DiffX(c, x), DiffX(c, x))
    \/ MulOverflows(DiffY(c, y), DiffY(c, y))
    \/ AddOverflows(Sqr(DiffX(c, x)), Sqr(DiffY(c, y)))

\* variant: corner_a also on a tie (d1 <= d2)
SelectCornerTieA(d1, d2, a, b) == IF U32Lt(d2, d1) THEN b ELSE a

\* if d1 < d2 { corner_a } else { corner_b }
SelectCorner(d1, d2, a, b) == IF U32Lt(d1, d2) THEN a ELSE b

\* (x_index.min(width - 1), y_index.min(height - 1))
Clamp(c, w, h) == <<Min(c[1], w - 1), Min(c[2], h - 1)>>

Failed(st, idx, a, b) ==
    [status |-> st, corner_a_idx |-> idx[1], corner_b_idx |-> idx[2],
     corner_a |-> a, corner_b |-> b, d1 |-> None, d2 |-> None,
     center |-> None, sample |-> None]

HexMap(x, y, r, g, w, h, checks) ==
    IF r = 0 \/ g = 0
    THEN Failed("div_zero", <<None, None>>, None, None)
    ELSE LET idx == CornerIdx(x, y, r, g)
             a   == Corner(idx[1], r, g)
             b   == Corner(idx[2], r, g)
         IN  IF checks /\ (DistOverflows(a, x, y) \/ DistOverflows(b, x, y))
             THEN Failed("overflow", idx, a, b)
             ELSE LET d1 == Dist(a, x, y)
                      d2 == Dist(b, x, y)
                      c  == SelectCorner(d1, d2, a, b)
                  IN  [status |-> "ok",
                       corner_a_idx |-> idx[1], corner_b_idx |-> idx[2],
                       corner_a |-> a, corner_b |-> b,
                       d1 |-> d1, d2 |-> d2,
                       center |-> c, sample |-> Clamp(c, w, h)]

(***************************************************************************)
(* Rasters                                                                 *)
(***************************************************************************)
Coords(w, h) == (0 .. w - 1) \X (0 .. h - 1)

\* every pixel a different colour
TagImage(w, h) == [p \in Coords(w, h) |-> 1 + p[1] + p[2] * w]

\* alternating 1-pixel checkerboard
CheckerImage(w, h) == [p \in Coords(w, h) |-> 1 + ((p[1] + p[2]) % 2)]

\* ImageBuffer::new(w, h): zeroed pixels
NewBuffer(w, h) == [p \in Coords(w, h) |-> Blank]

\* img.get_pixel(x, y)
GetPixel(image, p) == image[p]

\* the coordinates vector: (0..width).flat_map(|x| (0..height).map(|y| Point))
Column(x, h) == [j \in 1 .. h |-> [x |-> x, y |-> j - 1]]

RECURSIVE FlatMap(_, _, _)
FlatMap(x, w, h) == IF x >= w THEN <<>> ELSE Column(x, h) \o FlatMap(x + 1, w, h)

\* variant: results pushed in the order in which the calls complete
CollectIndexByCompletion(k, n) == n

\* position in the collected vector of the result of input element k, when
\* n results were collected before it: an indexed parallel collect keeps
\* the input order
CollectIndex(k, n) == k

\* variant: the row-major index of the raster instead of the vector's
WriteBackIndexRowMajor(x, y, h) == x + y * h

\* let i = y + x * height
WriteBackIndex(x, y, h) == y + x * h

NumPixels == width * height

(***************************************************************************)
(* Spec: one run of pixelise                                               *)
(***************************************************************************)
Init ==
    /\ mode \in {"sqr", "hex"}
    /\ radius \in 0 .. MaxRadius
    /\ width \in 1 .. MaxWidth
    /\ height \in 1 .. MaxHeight
    /\ img \in {TagImage(width, height), CheckerImage(width, height)}
    /\ overflow_checks \in BOOLEAN
    /\ workers \in 1 .. MaxWorkers
    /\ pc = "start"
    /\ pixelised = None
    /\ coordinates = <<>>
    /\ pending = {}
    /\ running = {}
    /\ pixels = <<>>
    /\ cursor = 0
    /\ px = 0
    /\ py = 0
    /\ mapped = None
    /\ remapped = None

inputs == <<mode, radius, width, height, img, overflow_checks, workers>>
probe == <<px, py, mapped, remapped>>

\* square_pixelisation: dimensions and buffer allocation
SquareBegin ==
    /\ pc = "start"
    /\ mode = "sqr"
    /\ pixelised' = NewBuffer(width, height)
    /\ cursor' = 0
    /\ pc' = "sqr_loop"
    /\ UNCHANGED <<inputs, probe, coordinates, pending, running, pixels>>

\* one iteration of the loop over enumerate_pixels_mut (row-major); the
\* division panics on a zero radius before the pixel is assigned
SquareStep ==
    /\ pc = "sqr_loop"
    /\ LET x == cursor % width
           y == cursor \div width
       IN  IF radius = 0
           THEN /\ pc' = "panicked"
                /\ UNCHANGED <<pixelised, cursor>>
           ELSE /\ pixelised' = [pixelised EXCEPT ![<<x, y>>] =
                        GetPixel(img, <<SquareMap(x, radius), SquareMap(y, radius)>>)]
                /\ cursor' = cursor + 1
                /\ pc' = IF cursor + 1 = NumPixels THEN "returned" ELSE "sqr_loop"
    /\ UNCHANGED <<inputs, probe, coordinates, pending, running, pixels>>

\* hexagon_pixelisation up to the start of the parallel map
HexBegin ==
    /\ pc = "start"
    /\ mode = "hex"
    /\ pixelised' = NewBuffer(width, height)
    /\ coordinates' = FlatMap(0, width, height)
    /\ pending' = 0 .. NumPixels - 1
    /\ running' = {}
    /\ pixels' = [i \in 1 .. NumPixels |-> None]
    /\ pc' = "hex_map"
    /\ UNCHANGED <<inputs, probe, cursor>>

\* a free worker of the pool takes the closure call for element k
HexTaskStart(k) ==
    /\ pc = "hex_map"
    /\ k \in pending
    /\ Cardinality(running) < workers
    /\ pending' = pending \ {k}
    /\ running' = running \cup {k}
    /\ UNCHANGED <<inputs, probe, pc, pixelised, coordinates, pixels, cursor>>

\* the closure call for element k completes: a panic is propagated out of
\* hexagon_pixelisation, a value goes to its place in the collected vector;
\* the collect returns when the last call has completed
HexTaskFinish(k) ==
    /\ pc = "hex_map"
    /\ k \in running
    /\ LET p == coordinates[k + 1]
           m == HexMap(p.x, p.y, InnerRadius(radius), Gap(radius),
                       width, height, overflow_checks)
           n == NumPixels - Cardinality(pending) - Cardinality(running)
       IN  IF m.status # "ok"
           THEN /\ pc' = "panicked"
                /\ UNCHANGED <<pixels, running>>
           ELSE /\ pixels' = [pixels EXCEPT ![CollectIndex(k, n) + 1] =
                        [x |-> p.x, y |-> p.y, color |-> GetPixel(img, m.sample)]]
                /\ running' = running \ {k}
                /\ pc' = IF pending = {} /\ running' = {}
                         THEN "hex_write" ELSE "hex_map"
    /\ UNCHANGED <<inputs, probe, pixelised, coordinates, pending, cursor>>

\* one iteration of the write-back loop over enumerate_pixels_mut
HexWriteStep ==
    /\ pc = "hex_write"
    /\ LET x == cursor % width
           y == cursor \div width
           i == WriteBackIndex(x, y, height)
       IN  IF i >= Len(pixels)
           THEN /\ pc' = "panicked"
                /\ UNCHANGED <<pixelised, cursor>>
           ELSE /\ pixelised' = [pixelised EXCEPT ![<<x, y>>] = pixels[i + 1].color]
                /\ cursor' = cursor + 1
                /\ pc' = IF cursor + 1 = NumPixels THEN "returned" ELSE "hex_write"
    /\ UNCHANGED <<inputs, probe, coordinates, pending, running, pixels>>

Next ==
    \/ SquareBegin
    \/ SquareStep
    \/ HexBegin
    \/ \E k \in 0 .. NumPixels - 1 : HexTaskStart(k)
    \/ \E k \in 0 .. NumPixels - 1 : HexTaskFinish(k)
    \/ HexWriteStep

Spec == Init /\ [][Next]_vars

(***************************************************************************)
(* MapSpec: the coordinate mappings applied to one pixel                   *)
(***************************************************************************)
SmallCase ==
    /\ radius \in 0 .. MapMaxRadius
    /\ width \in 1 .. MapMaxWidth
    /\ height \in 1 .. MapMaxHeight
    /\ px \in 0 .. width - 1
    /\ py \in 0 .. height - 1

BigCase ==
    /\ radius = BigRadius
    /\ width \in 1 .. 2
    /\ height = BigHeight
    /\ px \in 0 .. width - 1
    /\ py \in (height - 1 - BigWindow) .. (height - 1)

WideCase ==
    /\ radius = BigRadius
    /\ width = BigWidth
    /\ height \in 1 .. 2
    /\ px \in ((width \div 2) - BigWindow) .. ((width \div 2) + BigWindow)
    /\ py \in 0 .. height - 1

\* the raster content is not read by the coordinate mappings
MapInit ==
    /\ mode \in {"sqr", "hex"}
    /\ overflow_checks \in BOOLEAN
    /\ (SmallCase \/ BigCase \/ WideCase)
    /\ img = None
    /\ workers = 1
    /\ pc = "map"
    /\ pixelised = None
    /\ coordinates = <<>>
    /\ pending = {}
    /\ running = {}
    /\ pixels = <<>>
    /\ cursor = 0
    /\ mapped = None
    /\ remapped = None

orchestrator == <<img, workers, pixelised, coordinates, pending, running, pixels, cursor>>

\* the arguments of get_pixel in square_pixelisation for pixel (px, py)
MapSquare ==
    /\ pc = "map"
    /\ mode = "sqr"
    /\ mapped' = IF radius = 0
                 THEN [status |-> "div_zero", sample |-> None]
                 ELSE [status |-> "ok",
                       sample |-> <<SquareMap(px, radius), SquareMap(py, radius)>>]
    /\ pc' = "mapped"
    /\ UNCHANGED <<mode, radius, width, height, overflow_checks, px, py,
                   remapped, orchestrator>>

\* the closure of hexagon_pixelisation for pixel (px, py)
MapHex ==
    /\ pc = "map"
    /\ mode = "hex"
    /\ mapped' = HexMap(px, py, InnerRadius(radius), Gap(radius),
                        width, height, overflow_checks)
    /\ pc' = "mapped"
    /\ UNCHANGED <<mode, radius, width, height, overflow_checks, px, py,
                   remapped, orchestrator>>

\* the closure applied again, to the coordinate it sampled
Remap ==
    /\ pc = "mapped"
    /\ mode = "hex"
    /\ mapped.status = "ok"
    /\ remapped' = HexMap(mapped.sample[1], mapped.sample[2],
                          InnerRadius(radius), Gap(radius),
                          width, height, overflow_checks)
    /\ pc' = "remapped"
    /\ UNCHANGED <<mode, radius, width, height, overflow_checks, px, py,
                   mapped, orchestrator>>

MapNext == MapSquare \/ MapHex \/ Remap

MapSpec == MapInit /\ [][MapNext]_vars

(***************************************************************************)
(* Exact arithmetic for the properties: a natural number is a pair         *)
(* <<h, l>> standing for h * 2^16 + l with l < 2^16                         *)
(***************************************************************************)
AbsDiff(a, b) == IF a >= b THEN a - b ELSE b - a

\* d * d for d < 2^20
SqWide(d) ==
    LET dh == d \div 256
        dl == d % 256
        t  == 2 * dh * dl * 256 + dl * dl
    IN  <<dh * dh + (t \div Limb), t % Limb>>

WideAdd(a, b) == <<a[1] + b[1] + ((a[2] + b[2]) \div Limb), (a[2] + b[2]) % Limb>>

WideLt(a, b) == a[1] < b[1] \/ (a[1] = b[1] /\ a[2] < b[2])

\* the squared Euclidean distance from (x, y) to c
TrueSqDist(c, x, y) == WideAdd(SqWide(AbsDiff(c[1], x)), SqWide(AbsDiff(c[2], y)))

\* trunc(R * cos(30 deg)) over the reals: the r with r <= R * sqrt(3)/2 < r + 1
TruncCos30(R) ==
    CHOOSE r \in 0 .. R : 4 * r * r <= 3 * R * R /\ 3 * R * R < 4 * (r + 1) * (r + 1)

HexMapped == pc \in {"mapped", "remapped"} /\ mode = "hex"

(***************************************************************************)
(* Properties                                                              *)
(***************************************************************************)

\* C1: for every radius R >= 1 and every in-bounds pixel of a W x H image
\* (W, H >= 1) the hexagonal mapping completes without failure and samples
\* the source inside [0, W) x [0, H).
C1_HexCompletesInBounds ==
    (HexMapped /\ radius >= 1) =>
        /\ mapped.status = "ok"
        /\ mapped.sample \in Coords(width, height)

\* C2: the center chosen before clamping is a nearest hex center: no lattice
\* center (col * r, row * g), col and row non-negative and of equal parity,
\* is strictly closer to the pixel.  Centers more than two columns or rows
\* beyond the pixel's cell are farther than those inside the range.
C2_NearestCenter ==
    (HexMapped /\ mapped.status = "ok") =>
        LET r == InnerRadius(radius)
            g == Gap(radius)
        IN  \A col \in 0 .. (px \div r) + 2 : \A row \in 0 .. (py \div g) + 2 :
                ((col + row) % 2 = 0) =>
                    ~ WideLt(TrueSqDist(<<col * r, row * g>>, px, py),
                             TrueSqDist(mapped.center, px, py))

\* C3: both candidate grid positions satisfy the lattice parity rule: column
\* index and row index have the same parity, in either branch.
C3_CandidateParity ==
    (HexMapped /\ mapped.status # "div_zero") =>
        /\ (mapped.corner_a_idx[1] + mapped.corner_a_idx[2]) % 2 = 0
        /\ (mapped.corner_b_idx[1] + mapped.corner_b_idx[2]) % 2 = 0

C3_Witness ==
    /\ HexMapped
    /\ mapped.status = "ok"
    /\ mapped.corner_a_idx[2] = mapped.corner_b_idx[2] + 1
    /\ mapped.corner_a_idx[1] >= 1

C4_InvalidRadius ==
    \/ radius = 0
    \/ mode = "hex" /\ (TruncCos30(radius) = 0 \/ (3 * radius) \div 2 = 0)

C4_NothingWritten == pixelised = None \/ pixelised = NewBuffer(width, height)

\* a step that completes the evaluation of one pixel's closure or loop body
C4_PixelStep == pc = "sqr_loop" \/ (pc = "hex_map" /\ pending' = pending)

\* C4: with an invalid radius (0 in either mode; in hex mode also a radius
\* whose truncated inner radius or gap is 0) the run ends in an error: it
\* never reaches the write-back loop nor returns a raster, no pixel of the
\* output raster is written, work remains until the error, and the first
\* per-pixel evaluation to complete raises it.
C4_InvalidRadiusAborts ==
    /\ [](C4_InvalidRadius =>
            /\ pc \in {"start", "sqr_loop", "hex_map", "panicked"}
            /\ C4_NothingWritten
            /\ (pc = "hex_map") => (pending # {} \/ running # {}))
    /\ [][(C4_InvalidRadius /\ C4_PixelStep) => (pc' = "panicked")]_vars

C4_Witness ==
    /\ mode = "hex"
    /\ radius = 1
    /\ pc = "panicked"
    /\ pixelised = NewBuffer(width, height)
    /\ NumPixels > 1

C5_Sample(p) ==
    IF mode = "sqr"
    THEN <<SquareMap(p[1], radius), SquareMap(p[2], radius)>>
    ELSE HexMap(p[1], p[2], InnerRadius(radius), Gap(radius),
                width, height, overflow_checks).sample

\* C5: in both modes the colour stored at (x, y) in the returned raster is
\* the source colour at the coordinate the tiler computes for (x, y); in hex
\* mode the entry of the intermediate vector at index y + x * height is the
\* one computed for pixel (x, y).
C5_ColorAtMappedCoordinate ==
    /\ (pc = "returned") =>
           \A p \in Coords(width, height) :
               pixelised[p] = GetPixel(img, C5_Sample(p))
    /\ (pc = "hex_write") =>
           \A p \in Coords(width, height) :
               LET e == pixels[p[2] + p[1] * height + 1]
               IN  e.x = p[1] /\ e.y = p[2]

C5_Witness ==
    /\ pc = "returned"
    /\ mode = "hex"
    /\ width >= 2
    /\ height >= 2
    /\ \E p \in Coords(width, height) : pixelised[p] # img[p]

C6_Entry(i) ==
    LET x == i \div height
        y == i % height
        m == HexMap(x, y, InnerRadius(radius), Gap(radius),
                    width, height, overflow_checks)
    IN  [x |-> x, y |-> y, color |-> img[m.sample]]

\* C6: in hex mode the result does not depend on the number of workers nor
\* on the order in which the per-pixel computations run: whatever subset
\* has completed, each collected entry is determined by its own coordinate,
\* the source and the radius, and so is the returned raster.
C6_OrderIndependent ==
    (mode = "hex" /\ pc \in {"hex_map", "hex_write", "returned"}) =>
        /\ \A i \in 0 .. NumPixels - 1 :
               (pixels[i + 1] # None) => (pixels[i + 1] = C6_Entry(i))
        /\ (pc = "returned") =>
               pixelised = [p \in Coords(width, height) |->
                               C6_Entry(p[2] + p[1] * height).color]

C6_Witness ==
    /\ mode = "hex"
    /\ pc = "hex_map"
    /\ workers >= 2
    /\ Cardinality(running) >= 2
    /\ \E i, j \in 0 .. NumPixels - 1 :
           i < j /\ pixels[j + 1] # None /\ pixels[i + 1] = None /\ i \in pending

\* C7: for radius >= 1 the square mapping returns x' <= x and y' <= y, the
\* largest multiples of radius not exceeding x and y.
C7_LargestMultiple ==
    (pc = "mapped" /\ mode = "sqr" /\ radius >= 1) =>
        /\ mapped.status = "ok"
        /\ mapped.sample[1] <= px
        /\ mapped.sample[2] <= py
        /\ mapped.sample[1] % radius = 0
        /\ mapped.sample[2] % radius = 0
        /\ px < mapped.sample[1] + radius
        /\ py < mapped.sample[2] + radius

C7_Witness ==
    /\ pc = "mapped"
    /\ mode = "sqr"
    /\ radius >= 2
    /\ px % radius # 0
    /\ py >= radius
    /\ mapped.status = "ok"

\* C8: when the coordinate returned by the hexagonal mapping is a true hex
\* center (clamping did not alter the chosen center), mapping that
\* coordinate again yields the same coordinate.
C8_RemapCenterFixed ==
    (pc = "remapped" /\ mapped.sample = mapped.center) =>
        /\ remapped.status = "ok"
        /\ remapped.sample = mapped.sample

\* C9: for a valid radius the values d1 and d2 are the true squared
\* Euclidean distances to the two candidates; the u32 subtractions neither
\* abort the run nor wrap to a value that changes the selection.
C9_DistancesExact ==
    (HexMapped /\ InnerRadius(radius) >= 1 /\ Gap(radius) >= 1) =>
        /\ mapped.status = "ok"
        /\ mapped.d1 = TrueSqDist(mapped.corner_a, px, py)
        /\ mapped.d2 = TrueSqDist(mapped.corner_b, px, py)

\* C10: on an exact tie d1 = d2 the second candidate corner_b is selected;
\* corner_a is selected only when d1 is strictly smaller than d2.
C10_TieSelectsB ==
    (HexMapped /\ mapped.status = "ok") =>
        /\ (mapped.d1 = mapped.d2) => (mapped.center = mapped.corner_b)
        /\ (mapped.center = mapped.corner_a) => U32Lt(mapped.d1, mapped.d2)

C10_Witness ==
    /\ HexMapped
    /\ mapped.status = "ok"
    /\ mapped.d1 = mapped.d2
    /\ mapped.center = mapped.corner_b

====
